---- MODULE Spec2Model ----
(***************************************************************************)
(* Model of genes/map/manifestations/py/map.py: the list comprehension of  *)
(* map_gene executed one element at a time on a heap of Python objects,    *)
(* the module-level __gene__ record, and the three Laws property tests     *)
(* that call map_gene.                                                     *)
(***************************************************************************)
EXTENDS Integers, Sequences, FiniteSets, TLC

\* ---------------------------------------------------------------- bounds
MaxLen == 3         \* longest input sequence a caller passes (sequential runs)
MaxElem == 3        \* input elements are the integers 0..MaxElem
NProc == 2          \* interleaved invocations in the parallel specification
ParMaxLen == 1      \* longest input sequence in the parallel specification

Elems == 0..MaxElem
ParElems == {0, 1}
Procs == 1..NProc
Main == {1}

\* The sequences over S of length at most n.
RECURSIVE SeqsUpTo(_, _)
SeqsUpTo(S, n) ==
    IF n = 0 THEN {<<>>}
    ELSE LET shorter == SeqsUpTo(S, n - 1)
         IN  shorter \cup {Append(s, e) : s \in {t \in shorter : Len(t) = n - 1}, e \in S}

\* ------------------------------------------------- transformation functions
\* A function value is the sequence of primitive functions it applies, first
\* to last.  id_fn is the lambda of Laws.identity, test_f the lambda of the
\* demonstration; add1 and mul3 are the functions of the fusion scenario; inv
\* (6 // x) and boom (always raises) are callers' functions that can raise.
Prims == {"id_fn", "test_f", "add1", "mul3", "inv", "boom"}
ParPrims == {"test_f", "inv"}

Ok(v) == [ok |-> TRUE, val |-> v, exc |-> "none"]
Raised(e) == [ok |-> FALSE, val |-> 0, exc |-> e]

ApplyPrim(name, x) ==
    CASE name = "id_fn"  -> Ok(x)
      [] name = "test_f" -> Ok(x * 2)
      [] name = "add1"   -> Ok(x + 1)
      [] name = "mul3"   -> Ok(x * 3)
      [] name = "inv"    -> IF x = 0 THEN Raised("ZeroDivisionError") ELSE Ok(6 \div x)
      [] name = "boom"   -> Raised("ValueError")

\* f(x): the value f returns or the exception it raises.
RECURSIVE Apply(_, _)
Apply(f, x) ==
    IF f = <<>> THEN Ok(x)
    ELSE LET r == ApplyPrim(Head(f), x)
         IN  IF r.ok THEN Apply(Tail(f), r.val) ELSE r

\* A composition in the wrong order: lambda x: f(g(x)).
ComposeSwapped(f, g) == g \o f

\* composed = lambda x: g(f(x))
Compose(f, g) == f \o g

id_fn == <<"id_fn">>

\* ------------------------------------------------------------------ state
VARIABLES
    heap,     \* the objects allocated so far: heap[r] is the sequence object r
    gene,     \* the module-level __gene__ dict
    phase,    \* per caller: "idle", "running", "done", "failed"
    entry,    \* per caller: the function of the module it called
    arg,      \* per caller: the arguments it passed
    frame,    \* per caller: <<>> or <<the frame of its running map_gene call>>
    vals,     \* per caller: the values its map_gene calls have returned
    out,      \* per caller: what the law returned
    exc,      \* per caller: the exception that reached it
    calls     \* per caller: a record of every map_gene call that ended

vars == <<heap, gene, phase, entry, arg, frame, vals, out, exc, calls>>

\* The value of __gene__ (the lambda sign of the two strings is written L).
Gene0 ==
    [name |-> "map", lang |-> "py",
     extracts_to |-> "Lxs.Lf.case(xs, nil:nil, cons(h,t):cons(f(h), map(t,f)))",
     soul |-> "L7a3f9b2c"]

Entries == {"map_gene", "length_preservation", "identity", "composition_fusion"}

\* How many map_gene calls the entry makes.
NCalls(e) == IF e = "composition_fusion" THEN 3 ELSE 1

Init ==
    /\ heap = <<>>
    /\ gene = Gene0
    /\ phase = [p \in Procs |-> "idle"]
    /\ entry = [p \in Procs |-> "map_gene"]
    /\ arg = [p \in Procs |-> [xs |-> 0, f |-> <<>>, g |-> <<>>]]
    /\ frame = [p \in Procs |-> <<>>]
    /\ vals = [p \in Procs |-> <<>>]
    /\ out = [p \in Procs |-> "none"]
    /\ exc = [p \in Procs |-> "none"]
    /\ calls = [p \in Procs |-> <<>>]

\* ------------------------------------------------------------ heap objects
Kinds == {"list", "tuple"}

Obj(kind, elems) == [kind |-> kind, elems |-> elems]

\* A new object: its reference is the next free one.
Alloc(h, obj) == Append(h, obj)
NewRef(h) == Len(h) + 1

\* The value put at the front of the list instead of its end.
ListPrepend(h, r, v) == [h EXCEPT ![r].elems = <<v>> \o @]

\* A filtering comprehension ([f(x) for x in xs if f(x)]): falsy values are dropped.
ListAppendIfTruthy(h, r, v) == IF v = 0 THEN h ELSE [h EXCEPT ![r].elems = Append(@, v)]

\* LIST_APPEND of the comprehension: v goes at the end of list r.
ListAppend(h, r, v) == [h EXCEPT ![r].elems = Append(@, v)]

\* len(a) and a == b of Python on sequence objects: a list equals a list with
\* the same elements in the same order, and never equals a tuple.
PyLen(o) == Len(o.elems)
PyEq(a, b) == a.kind = b.kind /\ a.elems = b.elems

Bool(b) == IF b THEN "True" ELSE "False"

Inputs == SeqsUpTo(Elems, MaxLen)
ParInputs == SeqsUpTo(ParElems, ParMaxLen)

FArgs(e) == IF e = "identity" THEN {<<>>} ELSE {<<n>> : n \in Prims}
GArgs(e) == IF e = "composition_fusion" THEN {<<n>> : n \in Prims} ELSE {<<>>}

\* ---------------------------------------------------------------- callers
\* A caller builds a sequence and calls map_gene or one of the Laws with it.
Enter(p) ==
    /\ phase[p] = "idle"
    /\ \E e \in Entries, k \in Kinds, xs \in Inputs :
         \E f \in FArgs(e), g \in GArgs(e) :
            /\ heap' = Alloc(heap, Obj(k, xs))
            /\ entry' = [entry EXCEPT ![p] = e]
            /\ arg' = [arg EXCEPT ![p] = [xs |-> NewRef(heap), f |-> f, g |-> g]]
    /\ phase' = [phase EXCEPT ![p] = "running"]
    /\ UNCHANGED <<gene, frame, vals, out, exc, calls>>

\* The arguments of the caller's next map_gene call.
CallXs(p) ==
    IF entry[p] = "composition_fusion" /\ Len(vals[p]) = 1 THEN vals[p][1] ELSE arg[p].xs

CallF(p) ==
    CASE entry[p] = "identity" -> id_fn
      [] entry[p] = "composition_fusion" /\ Len(vals[p]) = 1 -> arg[p].g
      [] entry[p] = "composition_fusion" /\ Len(vals[p]) = 2 -> Compose(arg[p].f, arg[p].g)
      [] OTHER -> arg[p].f

\* ---------------------------------------------------------------- map_gene
\* An accumulator kept at module level and shared by all calls, instead of a
\* new list per call.
CallSharedAcc(p) ==
    /\ phase[p] = "running"
    /\ frame[p] = <<>>
    /\ Len(vals[p]) < NCalls(entry[p])
    /\ heap' = IF Len(heap) > NProc THEN heap ELSE Alloc(heap, Obj("list", <<>>))
    /\ frame' = [frame EXCEPT ![p] =
                   <<[xs |-> CallXs(p), f |-> CallF(p), it |-> 0, acc |-> NProc + 1,
                      log |-> <<>>, xs0 |-> heap[CallXs(p)], h0 |-> Len(heap)]>>]
    /\ UNCHANGED <<gene, phase, entry, arg, vals, out, exc, calls>>

\* return [f(x) for x in xs], entered: a new empty list and an iterator at
\* the start of xs.
Call(p) ==
    /\ phase[p] = "running"
    /\ frame[p] = <<>>
    /\ Len(vals[p]) < NCalls(entry[p])
    /\ heap' = Alloc(heap, Obj("list", <<>>))
    /\ frame' = [frame EXCEPT ![p] =
                   <<[xs |-> CallXs(p), f |-> CallF(p), it |-> 0, acc |-> NewRef(heap),
                      log |-> <<>>, xs0 |-> heap[CallXs(p)], h0 |-> Len(heap)]>>]
    /\ UNCHANGED <<gene, phase, entry, arg, vals, out, exc, calls>>

Running(p) == frame[p] # <<>>
Fr(p) == frame[p][1]

\* The iterator has another element: the one at its index in xs as xs is now.
HasNext(p) == Running(p) /\ Fr(p).it < Len(heap[Fr(p).xs].elems)

\* Iteration from the last element to the first.
NextElemReversed(p) == heap[Fr(p).xs].elems[Len(heap[Fr(p).xs].elems) - Fr(p).it]

NextElem(p) == heap[Fr(p).xs].elems[Fr(p).it + 1]

\* A map in place: f(x) is also stored over x in xs.
StepInPlace(p) ==
    /\ HasNext(p)
    /\ Apply(Fr(p).f, NextElem(p)).ok
    /\ heap' = [ListAppend(heap, Fr(p).acc, Apply(Fr(p).f, NextElem(p)).val)
                  EXCEPT ![Fr(p).xs].elems[Fr(p).it + 1] = Apply(Fr(p).f, NextElem(p)).val]
    /\ frame' = [frame EXCEPT ![p] =
                   <<[Fr(p) EXCEPT !.it = @ + 1, !.log = Append(@, NextElem(p))]>>]
    /\ UNCHANGED <<gene, phase, entry, arg, vals, out, exc, calls>>

\* One round of the comprehension in which f(x) returns: the value is appended.
Step(p) ==
    /\ HasNext(p)
    /\ Apply(Fr(p).f, NextElem(p)).ok
    /\ heap' = ListAppend(heap, Fr(p).acc, Apply(Fr(p).f, NextElem(p)).val)
    /\ frame' = [frame EXCEPT ![p] =
                   <<[Fr(p) EXCEPT !.it = @ + 1, !.log = Append(@, NextElem(p))]>>]
    /\ UNCHANGED <<gene, phase, entry, arg, vals, out, exc, calls>>

EndOfCall(p, status, result, e, log) ==
    [xs |-> Fr(p).xs, xs0 |-> Fr(p).xs0, f |-> Fr(p).f, h0 |-> Fr(p).h0,
     status |-> status, result |-> result, exc |-> e, log |-> log]

\* The exception of f caught and replaced by one of the module's own.
PropagatedWrapped(e) == "TransformationError"

\* The exception that leaves map_gene when f(x) raised e: map_gene has no
\* try statement, so it is e itself.
Propagated(e) == e

\* One round in which f(x) raises: nothing catches the exception in map_gene
\* or in the Laws, so it reaches the caller and the list being built is lost.
Raise(p) ==
    /\ HasNext(p)
    /\ ~Apply(Fr(p).f, NextElem(p)).ok
    /\ LET e == Propagated(Apply(Fr(p).f, NextElem(p)).exc)
       IN  /\ calls' = [calls EXCEPT ![p] =
                          Append(@, EndOfCall(p, "raised", <<>>, e,
                                              Append(Fr(p).log, NextElem(p))))]
           /\ exc' = [exc EXCEPT ![p] = e]
    /\ frame' = [frame EXCEPT ![p] = <<>>]
    /\ phase' = [phase EXCEPT ![p] = "failed"]
    /\ UNCHANGED <<heap, gene, entry, arg, vals, out>>

\* return ys or None: an empty result is returned as no list at all.
ReturnNoneIfEmpty(p) ==
    /\ Running(p)
    /\ ~HasNext(p)
    /\ LET r == IF heap[Fr(p).acc].elems = <<>> THEN <<>> ELSE <<Fr(p).acc>>
       IN  calls' = [calls EXCEPT ![p] =
                       Append(@, EndOfCall(p, "returned", r, "none", Fr(p).log))]
    /\ vals' = [vals EXCEPT ![p] = Append(@, Fr(p).acc)]
    /\ frame' = [frame EXCEPT ![p] = <<>>]
    /\ UNCHANGED <<heap, gene, phase, entry, arg, out, exc>>

\* The iterator is exhausted: the list is returned.
Return(p) ==
    /\ Running(p)
    /\ ~HasNext(p)
    /\ calls' = [calls EXCEPT ![p] =
                   Append(@, EndOfCall(p, "returned", <<Fr(p).acc>>, "none", Fr(p).log))]
    /\ vals' = [vals EXCEPT ![p] = Append(@, Fr(p).acc)]
    /\ frame' = [frame EXCEPT ![p] = <<>>]
    /\ UNCHANGED <<heap, gene, phase, entry, arg, out, exc>>

\* ------------------------------------------------------------------- Laws
\* What the entry returns once its map_gene calls have returned.
LawResult(p) ==
    CASE entry[p] = "length_preservation" ->
           Bool(PyLen(heap[vals[p][1]]) = PyLen(heap[arg[p].xs]))
      [] entry[p] = "identity" ->
           Bool(PyEq(heap[vals[p][1]], heap[arg[p].xs]))
      [] entry[p] = "composition_fusion" ->
           Bool(PyEq(heap[vals[p][2]], heap[vals[p][3]]))
      [] OTHER -> "none"

Finish(p) ==
    /\ phase[p] = "running"
    /\ frame[p] = <<>>
    /\ Len(vals[p]) = NCalls(entry[p])
    /\ out' = [out EXCEPT ![p] = LawResult(p)]
    /\ phase' = [phase EXCEPT ![p] = "done"]
    /\ UNCHANGED <<heap, gene, entry, arg, frame, vals, exc, calls>>

\* ---------------------------------------------------------- specifications
\* One caller, any entry of the module.
Next ==
    \E p \in Main :
        \/ Enter(p)
        \/ Call(p)
        \/ Step(p)
        \/ Raise(p)
        \/ Return(p)
        \/ Finish(p)

Spec == Init /\ [][Next]_vars

\* Several callers, each having built its own sequence, each calling
\* map_gene once; their steps interleave.
InitPar ==
    \E xsv \in [Procs -> ParInputs], fv \in [Procs -> {<<n>> : n \in ParPrims}] :
        /\ heap = [p \in Procs |-> Obj("list", xsv[p])]
        /\ gene = Gene0
        /\ phase = [p \in Procs |-> "running"]
        /\ entry = [p \in Procs |-> "map_gene"]
        /\ arg = [p \in Procs |-> [xs |-> p, f |-> fv[p], g |-> <<>>]]
        /\ frame = [p \in Procs |-> <<>>]
        /\ vals = [p \in Procs |-> <<>>]
        /\ out = [p \in Procs |-> "none"]
        /\ exc = [p \in Procs |-> "none"]
        /\ calls = [p \in Procs |-> <<>>]

NextPar ==
    \E p \in Procs :
        \/ Call(p)
        \/ Step(p)
        \/ Raise(p)
        \/ Return(p)
        \/ Finish(p)

SpecPar == InitPar /\ [][NextPar]_vars

\* ------------------------------------------------------ reference semantics
\* [f(x) for x in xs] run to its end without interruption: the list it
\* returns, or the exception of the first f(x) that raises.
RECURSIVE Comprehension(_, _, _)
Comprehension(xs, f, acc) ==
    IF xs = <<>> THEN [status |-> "returned", elems |-> acc, exc |-> "none"]
    ELSE LET r == Apply(f, Head(xs))
         IN  IF r.ok THEN Comprehension(Tail(xs), f, Append(acc, r.val))
             ELSE [status |-> "raised", elems |-> <<>>, exc |-> r.exc]

map_gene(xs, f) == Comprehension(xs, f, <<>>)

\* __gene__['extracts_to']: case(xs, nil:nil, cons(h,t):cons(f(h), map(t,f)))
RECURSIVE MapRec(_, _)
MapRec(xs, f) ==
    IF xs = <<>> THEN <<>>
    ELSE <<Apply(f, Head(xs)).val>> \o MapRec(Tail(xs), f)

\* ------------------------------------------------------------------ claims
\* The map_gene calls that have ended, of every caller.
Ended == UNION {{calls[p][i] : i \in 1..Len(calls[p])} : p \in Procs}

Returned(c) == c.status = "returned"
Failed(c) == c.status = "raised"
In(c) == c.xs0.elems
Ys(c) == heap[c.result[1]].elems

TotalOn(f, xs) == \A i \in DOMAIN xs : Apply(f, xs[i]).ok
FailsAt(f, xs) == {i \in DOMAIN xs : ~Apply(f, xs[i]).ok}
FirstFail(f, xs) == CHOOSE i \in FailsAt(f, xs) : \A j \in FailsAt(f, xs) : i <= j

\* C1: the sequence a call returns holds f(xs[i]) at every index i of xs.
C1_Positional ==
    \A c \in Ended :
        Returned(c) =>
            \A i \in DOMAIN In(c) :
                i \in DOMAIN Ys(c) /\ Ys(c)[i] = Apply(c.f, In(c)[i]).val

C1_Witness ==
    \E c \in Ended :
        Returned(c) /\ In(c) = <<1, 2, 3>> /\ c.f = <<"test_f">> /\ Ys(c) = <<2, 4, 6>>

\* C2 as stated: a call whose f raises on some element ends with a
\* TransformationError and returns nothing; a call whose f is total returns.
C2_TransformationError ==
    \A c \in Ended :
        /\ ~TotalOn(c.f, In(c)) => Failed(c) /\ c.exc = "TransformationError" /\ c.result = <<>>
        /\ TotalOn(c.f, In(c)) => Returned(c)

\* C2 amended: a call whose f raises on some element ends, at the first such
\* element, with the very exception f raised there; it returns nothing, the
\* caller gets the exception and no value; a call whose f is total returns.
C2_Propagation ==
    /\ \A c \in Ended :
        /\ ~TotalOn(c.f, In(c)) =>
              /\ Failed(c) /\ c.result = <<>>
              /\ Len(c.log) = FirstFail(c.f, In(c))
              /\ c.exc = Apply(c.f, In(c)[FirstFail(c.f, In(c))]).exc
        /\ TotalOn(c.f, In(c)) => Returned(c) /\ c.exc = "none"
    /\ \A p \in Procs :
        /\ phase[p] = "failed" <=> (calls[p] # <<>> /\ Failed(calls[p][Len(calls[p])]))
        /\ phase[p] = "failed" =>
              /\ exc[p] = calls[p][Len(calls[p])].exc
              /\ Len(vals[p]) = Len(calls[p]) - 1
              /\ out[p] = "none"
        /\ phase[p] # "failed" => exc[p] = "none"

C2_Witness ==
    \E c \in Ended :
        /\ Failed(c) /\ c.f = <<"inv">> /\ In(c) = <<2, 0, 1>>
        /\ c.exc = "ZeroDivisionError" /\ c.result = <<>>

\* C3: Laws.composition_fusion returns True: mapping f and then g gives the
\* same list as mapping the composition once; [1,2,3] with add-1 and
\* multiply-by-3 gives [6, 9, 12] both ways.
C3_Fusion ==
    \A p \in Procs :
        (entry[p] = "composition_fusion" /\ phase[p] = "done") =>
            /\ out[p] = "True"
            /\ heap[vals[p][2]].elems = heap[vals[p][3]].elems
            /\ (heap[arg[p].xs].elems = <<1, 2, 3>> /\ arg[p].f = <<"add1">>
                  /\ arg[p].g = <<"mul3">>) => heap[vals[p][2]].elems = <<6, 9, 12>>

C3_Witness ==
    \E p \in Procs :
        /\ entry[p] = "composition_fusion" /\ phase[p] = "done"
        /\ heap[arg[p].xs].elems = <<1, 2, 3>>
        /\ arg[p].f = <<"add1">> /\ arg[p].g = <<"mul3">>
        /\ heap[vals[p][3]].elems = <<6, 9, 12>>

\* C4: during a call and ever after it, returned or raised, the input object
\* is as it was when the call began, and a returned list is an object that
\* did not exist when the call began (so it is not the input).
C4_InputUnchanged ==
    /\ \A p \in Procs : Running(p) => heap[Fr(p).xs] = Fr(p).xs0
    /\ \A c \in Ended :
        /\ heap[c.xs] = c.xs0
        /\ Returned(c) => c.result[1] # c.xs /\ c.result[1] > c.h0

C4_Witness ==
    \E p \in Procs :
        /\ Len(calls[p]) = 2
        /\ Returned(calls[p][1]) /\ Len(In(calls[p][1])) = 3
        /\ Failed(calls[p][2]) /\ Len(calls[p][2].log) = 2

\* C5: a returned list is as long as the input, and
\* Laws.length_preservation returns True.
C5_Length ==
    /\ \A c \in Ended : Returned(c) => Len(Ys(c)) = Len(In(c))
    /\ \A p \in Procs :
        (entry[p] = "length_preservation" /\ phase[p] = "done") => out[p] = "True"

C5_Witness ==
    \E p \in Procs :
        /\ entry[p] = "length_preservation" /\ phase[p] = "done" /\ out[p] = "True"
        /\ heap[arg[p].xs] = Obj("tuple", <<0, 3, 0>>)
        /\ arg[p].f = <<"mul3">>

C7_Empty ==
    \A c \in Ended :
        In(c) = <<>> =>
            Returned(c) /\ c.result # <<>> /\ Ys(c) = <<>> /\ c.log = <<>>

C7_Witness ==
    \E c \in Ended : In(c) = <<>> /\ c.f = <<"boom">> /\ Returned(c) /\ Ys(c) = <<>>

\* C8: the elements f has been invoked on, in the order of the invocations,
\* are always the first elements of xs in their order, one invocation each:
\* all of xs when the call returns, and xs up to the first element on which f
\* raises when the call fails.
C8_InOrder ==
    /\ \A p \in Procs :
        Running(p) =>
            /\ Fr(p).log = SubSeq(Fr(p).xs0.elems, 1, Fr(p).it)
            /\ Len(heap[Fr(p).acc].elems) = Fr(p).it
    /\ \A c \in Ended :
        /\ Returned(c) => c.log = In(c)
        /\ Failed(c) =>
              /\ c.log = SubSeq(In(c), 1, Len(c.log))
              /\ Len(c.log) >= 1
              /\ ~Apply(c.f, c.log[Len(c.log)]).ok
              /\ \A i \in 1..(Len(c.log) - 1) : Apply(c.f, c.log[i]).ok

C8_Witness ==
    \E c \in Ended :
        Failed(c) /\ In(c) = <<3, 1, 0>> /\ c.f = <<"inv">> /\ c.log = <<3, 1, 0>>

\* C9: a returned list is the list the recursive definition of extracts_to
\* gives: nil for nil, cons(f(h), map(t, f)) for cons(h, t).
C9_Recursive ==
    \A c \in Ended : Returned(c) => Ys(c) = MapRec(In(c), c.f)

C9_Witness ==
    \E c \in Ended :
        Returned(c) /\ In(c) = <<0, 1, 2>> /\ c.f = <<"add1">> /\ Ys(c) = <<1, 2, 3>>

\* Every ended call ended as the uninterrupted comprehension does on its input.
C10_Ends ==
    \A c \in Ended :
        /\ c.status = map_gene(In(c), c.f).status
        /\ c.exc = map_gene(In(c), c.f).exc
        /\ Returned(c) => Ys(c) = map_gene(In(c), c.f).elems

\* C10: with the steps of several calls interleaved, every call ends as it
\* does when run alone, no step changes any caller's input object, and
\* __gene__ keeps the value it was given at load time.
C10_Isolation ==
    /\ [](C10_Ends /\ gene = Gene0)
    /\ [][gene' = gene /\ \A p \in Procs : heap'[arg[p].xs] = heap[arg[p].xs]]_vars

\* Caller 2's call began after caller 1's and returned while caller 1's was
\* still running, its element already mapped.
C10_Witness ==
    /\ Running(1) /\ Fr(1).it = 1
    /\ calls[2] # <<>> /\ Returned(calls[2][1]) /\ Len(In(calls[2][1])) = 1
    /\ calls[2][1].result[1] > Fr(1).acc

====
